---- MODULE Spec2Model ----
(***************************************************************************)
(* A model of bookwyrm's activitypub deserialisation core:                 *)
(*   - ActivityObject.__init__ / to_model / serialize, set_related_field   *)
(*     and resolve_remote_id       (bookwyrm/activitypub/base_activity.py) *)
(*   - the connector's is_available, search, dict_from_mappings, get_data  *)
(*     and Mapping.get_value    (bookwyrm/connectors/abstract_connector.py)*)
(* The model layer (find_existing, the field bindings, save) and the task  *)
(* queue are not part of these files; they are modelled from the written   *)
(* specification.                                                          *)
(***************************************************************************)
EXTENDS Integers, Sequences, FiniteSets, TLC

VARIABLES
    store,            \* committed rows: pk -> entity
    nextpk,           \* the next primary key the database hands out
    queue,            \* set_related_field tasks published and not yet taken
    ctx,              \* per process: the frame of the call it is executing
    calls,            \* number of resolve_remote_id calls started so far
                      \* (every request thread serves one request)
    query_count,      \* models.Connector.query_count of the connector record
    max_query_count,  \* the connector's configured ceiling (None or a number)
    searches,         \* number of search() calls made on the connector
    last_search,      \* outcome of the last search() call
    fin,              \* input of the pure function under evaluation
    fmid,             \* dict_from_mappings' result (when the input is a record)
    fout              \* ActivityObject.__init__'s outcome

sysvars == <<store, nextpk, queue, ctx, calls>>
connvars == <<query_count, max_query_count, searches, last_search>>
fnvars == <<fin, fmid, fout>>
vars == <<store, nextpk, queue, ctx, calls,
          query_count, max_query_count, searches, last_search,
          fin, fmid, fout>>

(***************************************************************************)
(* Bounds of the model.                                                    *)
(***************************************************************************)
MaxRefs == 2           \* references held by a reverse-relation field
MaxImageFields == 2    \* image fields a model declares
MaxSearches == 3       \* search() calls made in one behaviour
MaxQueryCount == 2     \* largest query ceiling a connector is configured with

(***************************************************************************)
(* Python values.  Every value carries its kind, so that None, the         *)
(* dataclasses MISSING sentinel, strings and lists stay distinguishable.   *)
(***************************************************************************)
None == [st |-> "None"]
MISSING == [st |-> "MISSING"]
Str(s) == [st |-> "str", s |-> s]
List(l) == [st |-> "list", l |-> l]
Dict(d) == [st |-> "dict", d |-> d]
ListFactory == [st |-> "factory"]

\* Python truthiness: `if not value`
Falsy(v) ==
    \/ v.st = "None"
    \/ v.st = "str" /\ v.s = ""
    \/ v.st = "list" /\ v.l = <<>>
    \/ v.st = "dict" /\ DOMAIN v.d = {}

URIs == {"u1", "u2"}

Min(S) == CHOOSE x \in S : \A y \in S : x <= y

(***************************************************************************)
(* ActivityObject.__init__                                                 *)
(***************************************************************************)
\* the dataclass fields of ActivityObject itself: both without a default
ActivityObjectFields ==
    << [name |-> "id", default |-> MISSING, default_factory |-> MISSING],
       [name |-> "type", default |-> MISSING, default_factory |-> MISSING] >>

\* a variant adds fields that carry a literal default or a default factory
VariantFields ==
    ActivityObjectFields \o
    << [name |-> "name", default |-> Str(""), default_factory |-> MISSING],
       [name |-> "refs", default |-> MISSING, default_factory |-> ListFactory] >>

FieldNames(fields) == {fields[i].name : i \in 1..Len(fields)}

\* lines 58-59 with `or` for `and`
NoDefaultEither(field) ==
    field.default = MISSING \/ field.default_factory = MISSING

\* lines 58-59: the field has neither a default nor a default factory
NoDefault(field) ==
    field.default = MISSING /\ field.default_factory = MISSING

\* lines 55-62 with the default taken first, when the field has one
FieldValuePreferDefault(field, kwargs) ==
    IF field.default # MISSING THEN field.default
    ELSE IF field.name \in DOMAIN kwargs THEN kwargs[field.name]
    ELSE field.default

\* lines 55-62: kwargs[field.name], or on KeyError field.default
FieldValue(field, kwargs) ==
    IF field.name \in DOMAIN kwargs THEN kwargs[field.name] ELSE field.default

RaisesMissing(field, kwargs) ==
    field.name \notin DOMAIN kwargs /\ NoDefault(field)

\* the whole constructor: the first field (in declaration order) that is
\* missing raises; otherwise every declared field is set, unknown keys dropped
Construct(cls, fields, kwargs) ==
    LET bad == {i \in 1..Len(fields) : RaisesMissing(fields[i], kwargs)}
    IN  IF bad # {}
        THEN [ok |-> FALSE,
              err |-> "ActivitySerializerError",
              field |-> fields[Min(bad)].name]
        ELSE [ok |-> TRUE,
              cls |-> cls,
              f |-> [n \in FieldNames(fields) |->
                        LET i == CHOOSE j \in 1..Len(fields) : fields[j].name = n
                        IN  FieldValue(fields[i], kwargs)]]

\* serialize(): the object's __dict__ with the context marker added
Context == Str("https://www.w3.org/ns/activitystreams")

serialize(f) ==
    [k \in DOMAIN f \cup {"@context"} |->
        IF k = "@context" THEN Context ELSE f[k]]

(***************************************************************************)
(* Mapping.get_value and dict_from_mappings                                *)
(***************************************************************************)
\* formatters a connector may attach to a mapping
Formatters == {"noop", "raises"}

Format(formatter, value) ==
    IF formatter = "raises" THEN [raised |-> TRUE] ELSE [raised |-> FALSE, v |-> value]

\* data.get(remote_field); falsy -> None; formatter raising -> None
get_value(mapping, data) ==
    LET value == IF mapping.remote_field \in DOMAIN data
                 THEN data[mapping.remote_field] ELSE None
    IN  IF Falsy(value) THEN None
        ELSE LET r == Format(mapping.formatter, value)
             IN  IF r.raised THEN None ELSE r.v

\* result[mapping.local_field] = mapping.get_value(data), for every mapping
dict_from_mappings(data, mappings) ==
    [k \in {mappings[i].local_field : i \in 1..Len(mappings)} |->
        LET last == CHOOSE i \in 1..Len(mappings) :
                        /\ mappings[i].local_field = k
                        /\ \A j \in 1..Len(mappings) :
                              mappings[j].local_field = k => j <= i
        IN  get_value(mappings[last], data)]

(***************************************************************************)
(* get_data: the HTTP GET behind every fetch                               *)
(***************************************************************************)
\* what the transport can do with one GET
FailureKinds ==
    {"RequestError",            \* urllib3's RequestError out of requests.get
     "ConnectionError",         \* a builtin ConnectionError out of the socket
     "RequestException",        \* any other exception out of requests.get
     "NotOk",                   \* a response whose status is not OK
     "NotJson"}                 \* an OK response whose body is not JSON

\* lines 199-218: the exception get_data ends with ("" when it returns data)
get_data_raises(kind) ==
    CASE kind = "RequestError" -> "ConnectorException"
      [] kind = "NotOk" -> "HTTPError"
      [] kind = "NotJson" -> "ConnectorException"
      [] kind = "ConnectionError" -> "ConnectionError"
      [] kind = "RequestException" -> "RequestException"
      [] OTHER -> ""

(***************************************************************************)
(* The model layer, as far as the core consumes it.                        *)
(***************************************************************************)
Models == {"Work", "Edition", "Status", "Image"}

\* the entity types request threads resolve
ResolveModels == {"Work", "Status"}

\* deserialize_reverse_fields of a model, with what getattr(model, name).field
\* gives: the related model, its field's name, and that field's
\* activitypub_field when it has one
ReverseFields(model) ==
    CASE model = "Work" ->
            << [activity_field |-> "refs", related_model |-> "Edition",
                related_field_name |-> "parent_work", activitypub_field |-> Str("work")] >>
      [] model = "Status" ->
            << [activity_field |-> "refs", related_model |-> "Image",
                related_field_name |-> "status", activitypub_field |-> None] >>
      [] OTHER -> <<>>

\* hasattr(model, 'ignore_activity')
HasIgnoreActivity(model) == model = "Status"

\* len(instance.image_fields)
ImageFieldCount(model) == IF model \in {"Work", "Edition"} THEN MaxImageFields ELSE 0

\* model(): a new, unsaved instance
NewInstance(model) ==
    [pk |-> 0, model |-> model, remote_id |-> None, parent |-> None,
     image |-> FALSE, m2m |-> FALSE,
     authors |-> {}, default_edition |-> 0, connector |-> None]

\* the instance a stored row loads as
Load(rows, pk) ==
    [pk |-> pk, model |-> rows[pk].model, remote_id |-> rows[pk].remote_id,
     parent |-> rows[pk].parent, image |-> rows[pk].image,
     m2m |-> rows[pk].m2m,
     authors |-> rows[pk].authors, default_edition |-> rows[pk].default_edition,
     connector |-> rows[pk].connector]

\* the row an instance is written as
Row(inst) ==
    [model |-> inst.model, remote_id |-> inst.remote_id, parent |-> inst.parent,
     image |-> inst.image, m2m |-> inst.m2m,
     authors |-> inst.authors, default_edition |-> inst.default_edition,
     connector |-> inst.connector]

\* find_existing(data): match on the model's deduplication field, the remote
\* id; a document without a usable id gives no key to match on.  0 is None.
find_existing(rows, model, data) ==
    LET idv == IF "id" \in DOMAIN data THEN data["id"] ELSE None
        hits == {k \in DOMAIN rows :
                    rows[k].model = model /\ rows[k].remote_id = idv}
    IN  IF Falsy(idv) \/ idv.st # "str" \/ hits = {} THEN 0 ELSE Min(hits)

\* find_existing_by_remote_id(remote_id)
find_existing_by_remote_id(rows, model, remote_id) ==
    find_existing(rows, model, [k \in {"id"} |-> remote_id])

\* to_activity(): the stored entity as an activitypub document
to_activity(row) ==
    [k \in {"id", "type", "@context"} |->
        CASE k = "id" -> row.remote_id
          [] k = "type" -> Str(row.model)
          [] OTHER -> Context]

\* store.persist fails on a uniqueness violation: another row of the same
\* entity type already holds this remote id
Conflict(rows, pk, row) ==
    /\ row.remote_id # None
    /\ \E k \in DOMAIN rows \ {pk} :
          rows[k].model = row.model /\ rows[k].remote_id = row.remote_id

(***************************************************************************)
(* The documents a remote host may answer with.                            *)
(***************************************************************************)
Absent == [st |-> "absent"]     \* marks a key the document does not hold

\* the mapping with the given values, without the keys marked Absent
MkDoc(idv, typev, refsv) ==
    LET full == [id |-> idv, type |-> typev, refs |-> refsv]
    IN  [k \in {k \in {"id", "type", "refs"} : full[k] # Absent} |-> full[k]]

DocIds == {Absent, None} \cup {Str(u) : u \in URIs}

\* one reference of a reverse field: a bare remote id or an embedded payload
BareRef == Str("u1")
EmbeddedRef == Dict(MkDoc(Str("u2"), Str("Object"), Absent))

\* the list of n references that starts with `first` and then alternates
RefList(n, first) ==
    [k \in 1..n |-> IF (k % 2 = 1) = first THEN BareRef ELSE EmbeddedRef]

\* what a host may send as the value of a reverse field: nothing, null, an
\* empty list, or a list of MaxRefs references
RefValues(model) ==
    IF ReverseFields(model) = <<>> THEN {Absent}
    ELSE {Absent, None, List(<<>>), List(RefList(MaxRefs, TRUE))}

\* documents that lack a field the serializer declares without a default
Malformed ==
    {MkDoc(Absent, Str("Object"), Absent), MkDoc(Str("u1"), Absent, Absent)}

\* the documents of the sequential specification: every kind of id, the
\* values of the reverse field, and the malformed documents
Docs(model) ==
    {MkDoc(i, Str("Object"), r) :
        i \in DocIds \ {Absent}, r \in RefValues(model) \ {None, List(<<>>)}}
    \cup {MkDoc(Str("u1"), Str("Object"), r) : r \in RefValues(model)}
    \cup Malformed

\* the answers to one GET: a failure, or a JSON document
Responses(model) ==
    {[kind |-> k] : k \in FailureKinds}
    \cup {[kind |-> "ok", json |-> d] : d \in Docs(model)}

\* the documents of the concurrent specification: the document of one remote
\* object, with and without references, and a document without an id
RaceDocs(model) ==
    {MkDoc(Str("u1"), Str("Object"), r) :
        r \in IF ReverseFields(model) = <<>> THEN {Absent}
              ELSE {None, List(RefList(MaxRefs, TRUE))}}
    \cup {MkDoc(Absent, Str("Object"), Absent)}

RaceResponses(model) ==
    {[kind |-> "ok", json |-> d] : d \in RaceDocs(model)}

(***************************************************************************)
(* Processes and their frames.                                             *)
(***************************************************************************)
Threads == {"t1", "t2"}       \* request threads
Workers == {"w"}              \* the task worker
Procs == Threads \cup Workers

NoRows == [k \in {} |-> None]

\* the locals of a book request before it has set them
NoBook ==
    [mappings |-> <<>>, is_work |-> FALSE, extract |-> None,
     work_data |-> None, edition_data |-> None, work |-> None,
     authors |-> {}]

IdleFrame ==
    [op |-> "idle", pc |-> "idle", id |-> 0,
     model |-> "", remote_id |-> None, refresh |-> FALSE, save |-> TRUE,
     result |-> 0, data |-> None, act |-> None, inst |-> None, i |-> 0,
     task |-> None, fetched |-> FALSE, log |-> <<>>, ret |-> None, err |-> "",
     pending |-> NoRows, depth |-> 0, book |-> NoBook, first |-> None]

\* what a process reads: the committed rows under its own uncommitted writes
View(p) ==
    [k \in DOMAIN store \cup DOMAIN ctx[p].pending |->
        IF k \in DOMAIN ctx[p].pending THEN ctx[p].pending[k] ELSE store[k]]

Put(rows, pk, row) ==
    [k \in DOMAIN rows \cup {pk} |-> IF k = pk THEN row ELSE rows[k]]

\* another transaction holds an uncommitted row with the same unique key:
\* the write waits for that transaction to end
Blocked(p, row) ==
    /\ row.remote_id # None
    /\ \E q \in Procs \ {p} : \E k \in DOMAIN ctx[q].pending :
          /\ ctx[q].pending[k].model = row.model
          /\ ctx[q].pending[k].remote_id = row.remote_id

\* the frame of a call that has ended: by a return or by an exception
Returned(fr, value) ==
    [fr EXCEPT !.pc = "done", !.ret = value, !.act = None, !.inst = None,
               !.i = 0, !.pending = NoRows, !.depth = 0]

Raised(fr, exception) ==
    [fr EXCEPT !.pc = "done", !.err = exception, !.act = None, !.inst = None,
               !.i = 0, !.pending = NoRows, !.depth = 0]

SysInit ==
    /\ store = NoRows
    /\ nextpk = 1
    /\ queue = <<>>
    /\ ctx = [p \in Procs |-> IdleFrame]
    /\ calls = 0

ConnUnchanged == UNCHANGED <<query_count, max_query_count, searches, last_search>>
FnUnchanged == UNCHANGED <<fin, fmid, fout>>

(***************************************************************************)
(* resolve_remote_id(model, remote_id, refresh, save)                      *)
(***************************************************************************)
\* lines 186 and 200 without the refresh flag: `if result`
ReturnsExistingAlways(result, refresh) == result # 0

\* lines 186 and 200 with the flag inverted: `if result and refresh`
ReturnsExistingOnRefresh(result, refresh) == result # 0 /\ refresh

\* lines 186 and 200: `if result and not refresh`
ReturnsExisting(result, refresh) == result # 0 /\ ~refresh

\* lines 192: the exceptions of get_data that resolve_remote_id converts
CaughtByResolve(exception) ==
    exception \in {"ConnectorException", "ConnectionError"}

\* lines 183-187: the call, its first lookup and the early return
ResolveCall(t, model, remote_id, refresh, save) ==
    /\ ctx[t].pc = "idle"
    /\ LET result == find_existing_by_remote_id(View(t), model, Str(remote_id))
           fr == [IdleFrame EXCEPT
                     !.op = "resolve", !.id = calls + 1, !.model = model,
                     !.remote_id = Str(remote_id), !.refresh = refresh,
                     !.save = save, !.result = result,
                     !.inst = IF result # 0 THEN Load(View(t), result) ELSE None]
       IN  ctx' = [ctx EXCEPT ![t] =
                      IF ReturnsExisting(result, refresh)
                      THEN Returned(fr, fr.inst)
                      ELSE [fr EXCEPT !.pc = "fetch"]]
    /\ calls' = calls + 1
    /\ UNCHANGED <<store, nextpk, queue>>
    /\ ConnUnchanged /\ FnUnchanged

\* lines 189-195: get_data(remote_id) and the except clause around it
ResolveFetch(t, resp) ==
    /\ ctx[t].op = "resolve" /\ ctx[t].pc = "fetch"
    /\    LET fr == [ctx[t] EXCEPT !.fetched = TRUE]
              exc == get_data_raises(resp.kind)
          IN  ctx' = [ctx EXCEPT ![t] =
                         IF exc = ""
                         THEN [fr EXCEPT !.data = Dict(resp.json), !.pc = "dedup"]
                         ELSE IF CaughtByResolve(exc)
                         THEN Raised(fr, "ActivitySerializerError:connect")
                         ELSE Raised(fr, exc)]
    /\ UNCHANGED <<store, nextpk, queue, calls>>
    /\ ConnUnchanged /\ FnUnchanged

NeedsDedupNever(result) == FALSE

\* line 198: `if not result`
NeedsDedup(result) == result = 0

\* lines 197-201: the second lookup, by the document's own identifiers
ResolveDedup(t) ==
    /\ ctx[t].op = "resolve" /\ ctx[t].pc = "dedup"
    /\ LET fr == ctx[t]
           result == IF NeedsDedup(fr.result)
                     THEN find_existing(View(t), fr.model, fr.data.d)
                     ELSE fr.result
           fr1 == [fr EXCEPT !.result = result,
                             !.inst = IF NeedsDedup(fr.result) /\ result # 0
                                      THEN Load(View(t), result) ELSE @]
       IN  ctx' = [ctx EXCEPT ![t] =
                      IF NeedsDedup(fr.result) /\ ReturnsExisting(result, fr.refresh)
                      THEN Returned(fr1, fr1.inst)
                      ELSE [fr1 EXCEPT !.pc = "construct"]]
    /\ UNCHANGED <<store, nextpk, queue, calls>>
    /\ ConnUnchanged /\ FnUnchanged

\* line 203: item = model.activity_serializer(**data); line 205 enters to_model
ResolveConstruct(t) ==
    /\ ctx[t].op = "resolve" /\ ctx[t].pc = "construct"
    /\ LET fr == ctx[t]
           c == Construct(fr.model, VariantFields, fr.data.d)
       IN  ctx' = [ctx EXCEPT ![t] =
                      IF ~c.ok
                      THEN Raised(fr, "ActivitySerializerError:missing")
                      ELSE [fr EXCEPT !.act = [cls |-> c.cls, f |-> c.f],
                                      !.pc = "find"]]
    /\ UNCHANGED <<store, nextpk, queue, calls>>
    /\ ConnUnchanged /\ FnUnchanged

(***************************************************************************)
(* ActivityObject.to_model(model, instance, save)                          *)
(* The frame holds the activity (act), the instance argument (inst), the   *)
(* model and save; log records what the call has done, in order.           *)
(***************************************************************************)
\* field.set_field_from_activity for the simple fields: the remote id comes
\* from the activity's id, the parent from its "work"; a value that is None
\* or MISSING leaves the field as it is
ApplySimpleFields(inst, f) ==
    [inst EXCEPT
        !.remote_id = IF f["id"].st = "str" THEN f["id"] ELSE @,
        !.parent = IF "work" \in DOMAIN f
                   THEN (IF f["work"].st = "str" THEN f["work"] ELSE @)
                   ELSE @]

\* line 80 without the lookup: instance or model()
TargetInstanceNoFind(instance, rows, model, data) ==
    IF instance # None THEN instance ELSE NewInstance(model)

\* line 80: instance or model.find_existing(self.serialize()) or model()
TargetInstance(instance, rows, model, data) ==
    IF instance # None THEN instance
    ELSE LET found == find_existing(rows, model, data)
         IN  IF found # 0 THEN Load(rows, found) ELSE NewInstance(model)

\* lines 90-91 without the early return: the transaction is always entered
AfterImagesAlwaysSave(save) == "save"

\* lines 90-93: after the image fields, return or go on to the transaction
AfterImages(save) == IF save THEN "save" ELSE "return"

\* lines 82-91 without the loop over the image fields
AfterSimpleNoImages(model, save) == AfterImages(save)

\* lines 82-88: after the simple fields come the image fields, if any
AfterSimple(model, save) ==
    IF ImageFieldCount(model) > 0 THEN "image" ELSE AfterImages(save)

\* instance.save(): an INSERT for an instance without a pk, else an UPDATE
Saved(inst) ==
    [inst EXCEPT !.pk = IF @ = 0 THEN nextpk ELSE @]

\* the write of instance.save() by process p, which goes on as frame frOk
\* when the row is written and as frame frFail on an IntegrityError
WriteInstance(p, inst, frOk, frFail) ==
    LET pk == Saved(inst).pk
        row == Row(inst)
    IN  /\ ~Blocked(p, row)
        /\ IF Conflict(View(p), pk, row)
           THEN /\ ctx' = [ctx EXCEPT ![p] = frFail]
                /\ UNCHANGED <<store, nextpk>>
           ELSE /\ nextpk' = IF inst.pk = 0 THEN nextpk + 1 ELSE nextpk
                /\ IF frOk.depth > 0
                   THEN /\ ctx' = [ctx EXCEPT ![p] =
                                     [frOk EXCEPT !.pending = Put(@, pk, row)]]
                        /\ store' = store
                   ELSE /\ ctx' = [ctx EXCEPT ![p] = frOk]
                        /\ store' = Put(store, pk, row)

\* lines 105-126 with one call per reverse field instead of one per item
FieldTasksOnce(rf, act, inst, src) ==
    LET values == act.f[rf.activity_field]
    IN  IF values = None \/ values = MISSING THEN <<>>
        ELSE << [model_name |-> rf.related_model,
                 origin_model_name |-> inst.model,
                 related_field_name |-> rf.related_field_name,
                 related_remote_id |-> inst.remote_id,
                 data |-> values,
                 src |-> src] >>

\* lines 105-126: the set_related_field calls of one reverse field
FieldTasks(rf, act, inst, src) ==
    LET values == act.f[rf.activity_field]
    IN  IF values = None \/ values = MISSING THEN <<>>
        ELSE [n \in 1..Len(values.l) |->
                 [model_name |-> rf.related_model,
                  origin_model_name |-> inst.model,
                  related_field_name |-> rf.related_field_name,
                  related_remote_id |-> inst.remote_id,
                  data |-> values.l[n],
                  src |-> src]]

RECURSIVE TasksFrom(_, _, _, _, _)
TasksFrom(rfs, n, act, inst, src) ==
    IF n > Len(rfs) THEN <<>>
    ELSE FieldTasks(rfs[n], act, inst, src) \o TasksFrom(rfs, n + 1, act, inst, src)

ReverseTasks(model, act, inst, src) ==
    TasksFrom(ReverseFields(model), 1, act, inst, src)

\* lines 68-80: the type check, ignore_activity, and the instance to fill
ToModelFind(p) ==
    /\ ctx[p].pc = "find"
    /\ \E ign \in (IF HasIgnoreActivity(ctx[p].model) THEN BOOLEAN ELSE {FALSE}) :
          LET fr == ctx[p]
              data == serialize(fr.act.f)
          IN  ctx' = [ctx EXCEPT ![p] =
                IF fr.act.cls # fr.model
                THEN Raised(fr, "ActivitySerializerError:type")
                ELSE IF ign THEN [fr EXCEPT !.pc = "return"]
                ELSE IF fr.inst # None THEN [fr EXCEPT !.pc = "simple"]
                ELSE [fr EXCEPT
                         !.act = [cls |-> fr.act.cls, f |-> data],
                         !.inst = TargetInstance(fr.inst, View(p), fr.model, data),
                         !.pc = "simple"]]
    /\ UNCHANGED <<store, nextpk, queue, calls>>
    /\ ConnUnchanged /\ FnUnchanged

\* lines 82-83: every simple field
ToModelSimple(p) ==
    /\ ctx[p].pc = "simple"
    /\ LET fr == ctx[p]
       IN  ctx' = [ctx EXCEPT ![p] =
                      [fr EXCEPT !.inst = ApplySimpleFields(fr.inst, fr.act.f),
                                 !.log = Append(@, "simple"),
                                 !.i = 1,
                                 !.pc = AfterSimple(fr.model, fr.save)]]
    /\ UNCHANGED <<store, nextpk, queue, calls>>
    /\ ConnUnchanged /\ FnUnchanged

\* lines 85-91: one image field, set with save=save: when the activity
\* carries an image that could be fetched the file is attached, and with
\* save the instance is written at once
ToModelImage(p) ==
    /\ ctx[p].pc = "image"
    /\ \E got \in BOOLEAN :
          LET fr == ctx[p]
              inst == IF got THEN [fr.inst EXCEPT !.image = TRUE] ELSE fr.inst
              next == IF fr.i >= ImageFieldCount(fr.model)
                      THEN AfterImages(fr.save) ELSE "image"
              fr1 == [fr EXCEPT !.i = @ + 1, !.pc = next]
          IN  IF got /\ fr.save
              THEN WriteInstance(p, inst,
                      [fr1 EXCEPT !.inst = Saved(inst),
                                  !.log = @ \o <<"image", "write">>],
                      Raised(fr, "IntegrityError"))
              ELSE /\ ctx' = [ctx EXCEPT ![p] =
                                 [fr1 EXCEPT !.inst = inst,
                                             !.log = Append(@, "image")]]
                   /\ UNCHANGED <<store, nextpk>>
    /\ UNCHANGED <<queue, calls>>
    /\ ConnUnchanged /\ FnUnchanged

\* lines 95-98 without the try: the IntegrityError leaves to_model as it is
SaveFailureUncaught(exception) == exception

\* lines 97-98: except IntegrityError as e: raise ActivitySerializerError(e)
SaveFailure(exception) ==
    IF exception = "IntegrityError"
    THEN "ActivitySerializerError:integrity" ELSE exception

\* lines 93-98: transaction.atomic() is entered and the instance is saved
ToModelSave(p) ==
    /\ ctx[p].pc = "save"
    /\ LET fr == ctx[p]
       IN  WriteInstance(p, fr.inst,
              [fr EXCEPT !.depth = @ + 1,
                         !.inst = Saved(fr.inst),
                         !.log = Append(@, "save"),
                         !.pc = "m2m"],
              Raised(fr, SaveFailure("IntegrityError")))
    /\ UNCHANGED <<queue, calls>>
    /\ ConnUnchanged /\ FnUnchanged

\* lines 100-103: the many-to-many fields; the transaction block ends, and
\* commits when it is the outermost one
ToModelM2M(p) ==
    /\ ctx[p].pc = "m2m"
    /\ LET fr == ctx[p]
           inst == [fr.inst EXCEPT !.m2m = TRUE]
           rows == Put(fr.pending, inst.pk, [fr.pending[inst.pk] EXCEPT !.m2m = TRUE])
           tasks == ReverseTasks(fr.model, fr.act, inst, fr.id)
           fr1 == [fr EXCEPT !.inst = inst,
                             !.log = Append(@, "m2m"),
                             !.depth = @ - 1,
                             !.i = 1,
                             !.pc = IF tasks = <<>> THEN "return" ELSE "reverse"]
       IN  IF fr.depth = 1
           THEN /\ store' = [k \in DOMAIN store \cup DOMAIN rows |->
                               IF k \in DOMAIN rows THEN rows[k] ELSE store[k]]
                /\ ctx' = [ctx EXCEPT ![p] = [fr1 EXCEPT !.pending = NoRows]]
           ELSE /\ store' = store
                /\ ctx' = [ctx EXCEPT ![p] = [fr1 EXCEPT !.pending = rows]]
    /\ UNCHANGED <<nextpk, queue, calls>>
    /\ ConnUnchanged /\ FnUnchanged

\* lines 119-126: one set_related_field.delay(...)
ToModelReverse(p) ==
    /\ ctx[p].pc = "reverse"
    /\ LET fr == ctx[p]
           tasks == ReverseTasks(fr.model, fr.act, fr.inst, fr.id)
       IN  /\ queue' = Append(queue, tasks[fr.i])
           /\ ctx' = [ctx EXCEPT ![p] =
                         [fr EXCEPT !.log = Append(@, "enqueue"),
                                    !.i = @ + 1,
                                    !.pc = IF fr.i >= Len(tasks)
                                           THEN "return" ELSE "reverse"]]
    /\ UNCHANGED <<store, nextpk, calls>>
    /\ ConnUnchanged /\ FnUnchanged

\* lines 77, 91 and 127: to_model returns; resolve_remote_id returns what
\* it returned (line 205), set_related_field goes on with it (line 174),
\* and so do get_or_create_book (line 129) and create_edition_from_data
\* (line 140)
ToModelReturn(p) ==
    /\ ctx[p].pc = "return"
    /\ LET fr == ctx[p]
       IN  ctx' = [ctx EXCEPT ![p] =
                      IF fr.op = "task" THEN [fr EXCEPT !.pc = "sr_post"]
                      ELSE IF fr.op \in {"book", "edition"}
                      THEN [fr EXCEPT !.pc = IF fr.model = "Work"
                                             THEN "b_authors" ELSE "e_post"]
                      ELSE Returned(fr, fr.inst)]
    /\ UNCHANGED <<store, nextpk, queue, calls>>
    /\ ConnUnchanged /\ FnUnchanged

(***************************************************************************)
(* set_related_field(model_name, origin_model_name, related_field_name,    *)
(*                   related_remote_id, data), run by the task worker      *)
(***************************************************************************)
\* hasattr(getattr(model, related_field_name), 'activitypub_field')
HasActivitypubField(model, related_field_name) ==
    model = "Edition" /\ related_field_name = "parent_work"

\* getattr(model_field, 'activitypub_field')
ActivitypubField(model, related_field_name) == "work"

\* lines 139-155: the task is taken; a bare remote id is looked up locally
TaskStart(w) ==
    /\ ctx[w].pc \in {"idle", "done"}
    /\ queue # <<>>
    /\ LET task == Head(queue)
           fr == [IdleFrame EXCEPT !.op = "task", !.model = task.model_name,
                                   !.task = task, !.depth = 2]
           existing == IF task.data.st = "str"
                       THEN find_existing_by_remote_id(
                                store, task.model_name, task.data)
                       ELSE 0
       IN  ctx' = [ctx EXCEPT ![w] =
                      IF task.data.st # "str"
                      THEN [fr EXCEPT !.data = task.data, !.pc = "sr_construct"]
                      ELSE IF existing # 0
                      THEN [fr EXCEPT !.data = Dict(to_activity(store[existing])),
                                      !.pc = "sr_construct"]
                      ELSE [fr EXCEPT !.pc = "sr_fetch"]]
    /\ queue' = Tail(queue)
    /\ UNCHANGED <<store, nextpk, calls>>
    /\ ConnUnchanged /\ FnUnchanged

\* line 155: data = get_data(data); nothing here catches what it raises
TaskFetch(w, resp) ==
    /\ ctx[w].op = "task" /\ ctx[w].pc = "sr_fetch"
    /\    LET fr == [ctx[w] EXCEPT !.fetched = TRUE]
              exc == get_data_raises(resp.kind)
          IN  ctx' = [ctx EXCEPT ![w] =
                         IF exc = ""
                         THEN [fr EXCEPT !.data = Dict(resp.json),
                                         !.pc = "sr_construct"]
                         ELSE Raised(fr, exc)]
    /\ UNCHANGED <<store, nextpk, queue, calls>>
    /\ ConnUnchanged /\ FnUnchanged

OriginFailureUnnoticed(related_remote_id) == ""

\* lines 160-162: raise ValueError('Invalid related remote id: ...')
OriginFailure(related_remote_id) == "ValueError"

\* lines 156-174: the activity is built, the origin looked up and its remote
\* id set on the activity; then to_model(model) is entered
TaskConstruct(w) ==
    /\ ctx[w].op = "task" /\ ctx[w].pc = "sr_construct"
    /\ LET fr == ctx[w]
           task == fr.task
           c == Construct(fr.model, VariantFields, fr.data.d)
           origin == find_existing_by_remote_id(
                         View(w), task.origin_model_name, task.related_remote_id)
           ap == ActivitypubField(fr.model, task.related_field_name)
           f == IF HasActivitypubField(fr.model, task.related_field_name)
                THEN [k \in DOMAIN c.f \cup {ap} |->
                         IF k = ap THEN View(w)[origin].remote_id ELSE c.f[k]]
                ELSE c.f
       IN  ctx' = [ctx EXCEPT ![w] =
                      IF ~c.ok THEN Raised(fr, "ActivitySerializerError:missing")
                      ELSE IF origin = 0
                      THEN Raised(fr, OriginFailure(task.related_remote_id))
                      ELSE [fr EXCEPT !.act = [cls |-> c.cls, f |-> f],
                                      !.result = origin,
                                      !.pc = "find"]]
    /\ UNCHANGED <<store, nextpk, queue, calls>>
    /\ ConnUnchanged /\ FnUnchanged

\* at-least-once delivery: the broker hands a task that has succeeded to the
\* worker once more, with the same arguments; the frame keeps what the first
\* run read from the remote host
TaskRedeliver(w) ==
    /\ ctx[w].op = "task" /\ ctx[w].pc = "done" /\ ctx[w].err = ""
    /\ ctx[w].first = None
    /\ LET task == ctx[w].task
           fr == [IdleFrame EXCEPT !.op = "task", !.model = task.model_name,
                                   !.task = task, !.depth = 2,
                                   !.first = [fetched |-> ctx[w].fetched,
                                              data |-> ctx[w].data]]
           existing == IF task.data.st = "str"
                       THEN find_existing_by_remote_id(
                                store, task.model_name, task.data)
                       ELSE 0
       IN  ctx' = [ctx EXCEPT ![w] =
                      IF task.data.st # "str"
                      THEN [fr EXCEPT !.data = task.data, !.pc = "sr_construct"]
                      ELSE IF existing # 0
                      THEN [fr EXCEPT !.data = Dict(to_activity(store[existing])),
                                      !.pc = "sr_construct"]
                      ELSE [fr EXCEPT !.pc = "sr_fetch"]]
    /\ UNCHANGED <<store, nextpk, queue, calls>>
    /\ ConnUnchanged /\ FnUnchanged

\* lines 176-180 and the end of both transaction blocks: a relation that is
\* not serialized is set on the item, which is saved again; then the task's
\* writes are committed
TaskPost(w) ==
    /\ ctx[w].op = "task" /\ ctx[w].pc = "sr_post"
    /\ LET fr == ctx[w]
           task == fr.task
           item == fr.inst
           direct == ~HasActivitypubField(fr.model, task.related_field_name)
           origin == View(w)[fr.result]
           item1 == [item EXCEPT !.parent = origin.remote_id]
           rows == IF direct
                   THEN Put(fr.pending, item.pk, Row(item1))
                   ELSE fr.pending
       IN  IF direct /\ item = None
           THEN /\ ctx' = [ctx EXCEPT ![w] = Raised(fr, "AttributeError")]
                /\ store' = store
           ELSE /\ store' = [k \in DOMAIN store \cup DOMAIN rows |->
                               IF k \in DOMAIN rows THEN rows[k] ELSE store[k]]
                /\ ctx' = [ctx EXCEPT ![w] =
                              Returned([fr EXCEPT
                                          !.log = IF direct
                                                  THEN Append(@, "save") ELSE @],
                                       None)]
    /\ UNCHANGED <<nextpk, queue, calls>>
    /\ ConnUnchanged /\ FnUnchanged

(***************************************************************************)
(* The connector: is_available and search.                                 *)
(***************************************************************************)
Num(n) == [st |-> "int", n |-> n]

\* lines 85-90
is_available ==
    IF max_query_count # None
    THEN (IF query_count >= max_query_count.n THEN FALSE ELSE TRUE)
    ELSE TRUE

\* what one search request can meet: a JSON answer holding some number of
\* documents, or a failure of the GET
SearchDocCounts == {0, 3, 12}

SearchAnswers ==
    {[kind |-> k] : k \in {"NotOk", "NotJson", "RequestException"}}
    \cup {[kind |-> "ok", docs |-> n] : n \in SearchDocCounts}

\* line 59: parse_search_data(data)[:10]
SearchLimit == 10

\* lines 41-61: search(query); the connector record is not touched
Search(answer) ==
    /\ searches < MaxSearches
    /\ searches' = searches + 1
    /\ last_search' =
          CASE answer.kind = "NotOk" -> [raised |-> "HTTPError"]
            [] answer.kind = "NotJson" -> [raised |-> "ConnectorException"]
            [] answer.kind = "RequestException" -> [raised |-> "RequestException"]
            [] OTHER -> [raised |-> "",
                         results |-> IF answer.docs > SearchLimit
                                     THEN SearchLimit ELSE answer.docs]
    /\ UNCHANGED <<query_count, max_query_count>>
    /\ UNCHANGED sysvars
    /\ FnUnchanged

(***************************************************************************)
(* The constructor on its own, and behind dict_from_mappings.              *)
(***************************************************************************)
Mapping(local_field, remote_field, formatter) ==
    [local_field |-> local_field, remote_field |-> remote_field,
     formatter |-> formatter]

\* the keyword arguments with the given values, without those marked Absent
MkKwargs(idv, typev, namev) ==
    LET full == [id |-> idv, type |-> typev, name |-> namev]
    IN  [k \in {k \in {"id", "type", "name"} : full[k] # Absent} |-> full[k]]

\* a raw record of an external catalog
MkRecord(idv, keyv, typev) ==
    LET full == [id |-> idv, key |-> keyv, type |-> typev]
    IN  [k \in {k \in {"id", "key", "type"} : full[k] # Absent} |-> full[k]]

IdValues == {Absent, None, Str(""), Str("u1")}

KwargsInputs ==
    {[kind |-> "kwargs", kwargs |-> MkKwargs(i, t, n)] :
        i \in IdValues, t \in {Absent, Str("Object")},
        n \in {Absent, None, Str("n")}}

\* the mappings a connector may declare for the id, and for the type
IdMappings ==
    {<<>>, <<Mapping("id", "id", "noop")>>, <<Mapping("id", "key", "noop")>>,
     <<Mapping("id", "id", "raises")>>,
     <<Mapping("id", "id", "noop"), Mapping("id", "key", "noop")>>}

TypeMappings == {<<>>, <<Mapping("type", "type", "noop")>>}

RecordInputs ==
    {[kind |-> "record", data |-> MkRecord(i, k, t), mappings |-> im \o tm] :
        i \in IdValues, k \in {Absent, Str("u2")}, t \in {Absent, Str("Object")},
        im \in IdMappings, tm \in TypeMappings}

\* activitypub.X(**kwargs), called directly
ConstructDirect ==
    /\ fin.kind = "kwargs" /\ fout = None
    /\ fout' = Construct("Author", VariantFields, fin.kwargs)
    /\ UNCHANGED <<fin, fmid>>
    /\ UNCHANGED sysvars
    /\ ConnUnchanged

\* get_or_create_author line 163: mapped_data = dict_from_mappings(data, ...)
MapRecord ==
    /\ fin.kind = "record" /\ fmid = None
    /\ fmid' = Dict(dict_from_mappings(fin.data, fin.mappings))
    /\ UNCHANGED <<fin, fout>>
    /\ UNCHANGED sysvars
    /\ ConnUnchanged

\* get_or_create_author line 164: activitypub.Author(**mapped_data)
ConstructMapped ==
    /\ fmid # None /\ fout = None
    /\ fout' = Construct("Author", VariantFields, fmid.d)
    /\ UNCHANGED <<fin, fmid>>
    /\ UNCHANGED sysvars
    /\ ConnUnchanged

(***************************************************************************)
(* AbstractConnector.get_or_create_book(remote_id) and                     *)
(* create_edition_from_data(work, edition_data)                            *)
(* The frame's book field holds the locals of the call: the connector's    *)
(* book_mappings, what the connector's own methods answered, the two       *)
(* payloads and the work.                                                  *)
(***************************************************************************)
\* the Edition variant also declares the parent work
EditionFields ==
    VariantFields \o
    << [name |-> "work", default |-> None, default_factory |-> MISSING] >>

Fields(cls) == IF cls = "Edition" THEN EditionFields ELSE VariantFields

\* self.book_mappings: empty in AbstractConnector (line 82), filled by a
\* concrete connector
BookMappings ==
    << Mapping("id", "id", "noop"), Mapping("type", "type", "noop"),
       Mapping("refs", "refs", "noop") >>

ConnectorMappings == {<<>>, BookMappings}

EmptyDoc == [k \in {} |-> None]

\* what get_edition_from_work_data / get_work_from_edition_data can do:
\* raise KeyError, raise something else, or return a document
Extractions ==
    {[kind |-> "KeyError"], [kind |-> "ExtractionError"]}
    \cup {[kind |-> "ok", json |-> d] :
            d \in {EmptyDoc, MkDoc(Str("u2"), Str("Object"), Absent)}}

\* what get_authors_from_data can do: raise, or return a list of authors
AuthorOutcomes == {"raises", "none", "some", "others"}

AuthorsOf(outcome) ==
    CASE outcome = "some" -> {"a1"}
      [] outcome = "others" -> {"a2"}
      [] OTHER -> {}

\* lines 108-121 without the except clauses
CaughtByBookNone(exception) == FALSE

\* lines 110 and 119: except KeyError
CaughtByBook(exception) == exception = "KeyError"

\* lines 106-121: the work payload and the edition payload, or the
\* exception of the extractor that nothing catches
Payloads(data, mappings, is_work, extract) ==
    LET mapped_data == dict_from_mappings(data, mappings)
    IN  IF extract.kind # "ok" /\ ~CaughtByBook(extract.kind)
        THEN [exc |-> extract.kind]
        ELSE IF is_work
        THEN [exc |-> "",
              work_data |-> mapped_data,
              edition_data |-> IF extract.kind = "ok" THEN extract.json ELSE data]
        ELSE [exc |-> "",
              work_data |-> IF extract.kind = "ok"
                            THEN dict_from_mappings(extract.json, mappings)
                            ELSE mapped_data,
              edition_data |-> data]

\* line 123: if not work_data or not edition_data
EmptyPayload(work_data, edition_data) ==
    Falsy(Dict(work_data)) \/ Falsy(Dict(edition_data))

\* the rows of a transaction, written over the committed ones
Commit(rows) ==
    [k \in DOMAIN store \cup DOMAIN rows |->
        IF k \in DOMAIN rows THEN rows[k] ELSE store[k]]

\* line 93 without the decorator: the call opens no transaction
AtomicNone(depth) == depth

\* line 93: @transaction.atomic opens a transaction around the call
Atomic(depth) == depth + 1

\* lines 93-102: the call enters its transaction and looks the remote id up,
\* first among the editions, then among the works.  (No model declares an
\* attribute named get_default_editon, so what was found is returned.)
BookCall(t, remote_id, mappings) ==
    /\ ctx[t].pc = "idle"
    /\ LET e == find_existing_by_remote_id(View(t), "Edition", Str(remote_id))
           w == find_existing_by_remote_id(View(t), "Work", Str(remote_id))
           existing == IF e # 0 THEN e ELSE w
           fr == [IdleFrame EXCEPT
                     !.op = "book", !.id = calls + 1,
                     !.remote_id = Str(remote_id), !.result = existing,
                     !.depth = Atomic(0),
                     !.book = [NoBook EXCEPT !.mappings = mappings]]
       IN  ctx' = [ctx EXCEPT ![t] =
                      IF existing # 0
                      THEN Returned(fr, Load(View(t), existing))
                      ELSE [fr EXCEPT !.pc = "b_fetch"]]
    /\ calls' = calls + 1
    /\ UNCHANGED <<store, nextpk, queue>>
    /\ ConnUnchanged /\ FnUnchanged

\* line 105: data = get_data(remote_id); what it raises leaves the call
BookFetch(t, resp) ==
    /\ ctx[t].op = "book" /\ ctx[t].pc = "b_fetch"
    /\ LET fr == [ctx[t] EXCEPT !.fetched = TRUE]
           exc == get_data_raises(resp.kind)
       IN  ctx' = [ctx EXCEPT ![t] =
                      IF exc = ""
                      THEN [fr EXCEPT !.data = Dict(resp.json), !.pc = "b_shape"]
                      ELSE Raised(fr, exc)]
    /\ UNCHANGED <<store, nextpk, queue, calls>>
    /\ ConnUnchanged /\ FnUnchanged

\* lines 106-129: the payloads, the check that both hold data, the work
\* activity; then to_model(models.Work) is entered
BookShape(t, is_work, extract) ==
    /\ ctx[t].op = "book" /\ ctx[t].pc = "b_shape"
    /\ LET fr == ctx[t]
           pl == Payloads(fr.data.d, fr.book.mappings, is_work, extract)
           fr1 == [fr EXCEPT !.book.is_work = is_work, !.book.extract = extract]
           c == Construct("Work", Fields("Work"), pl.work_data)
       IN  ctx' = [ctx EXCEPT ![t] =
                      IF pl.exc # "" THEN Raised(fr1, pl.exc)
                      ELSE IF EmptyPayload(pl.work_data, pl.edition_data)
                      THEN Raised([fr1 EXCEPT
                                      !.book.work_data = Dict(pl.work_data),
                                      !.book.edition_data = Dict(pl.edition_data)],
                                  "ConnectorException")
                      ELSE IF ~c.ok
                      THEN Raised(fr1, "ActivitySerializerError:missing")
                      ELSE [fr1 EXCEPT
                               !.book.work_data = Dict(pl.work_data),
                               !.book.edition_data = Dict(pl.edition_data),
                               !.model = "Work",
                               !.act = [cls |-> c.cls, f |-> c.f],
                               !.inst = None,
                               !.pc = "find"]]
    /\ UNCHANGED <<store, nextpk, queue, calls>>
    /\ ConnUnchanged /\ FnUnchanged

\* a write of process p that storage cannot refuse: into its transaction
\* when it is in one, else straight into storage
WriteRows(p, fr, rows) ==
    IF fr.depth > 0
    THEN /\ ctx' = [ctx EXCEPT ![p] =
                       [fr EXCEPT !.pending =
                           [k \in DOMAIN @ \cup DOMAIN rows |->
                               IF k \in DOMAIN rows THEN rows[k] ELSE @[k]]]]
         /\ store' = store
    ELSE /\ ctx' = [ctx EXCEPT ![p] = fr]
         /\ store' = Commit(rows)

\* lines 137-140: the edition payload is mapped, the work's remote id set on
\* it, the edition activity built; then to_model(models.Edition) is entered
EnterEdition(fr, work, edition_data) ==
    LET mapped_data == dict_from_mappings(edition_data, fr.book.mappings)
        with_work == [k \in DOMAIN mapped_data \cup {"work"} |->
                         IF k = "work" THEN work.remote_id ELSE mapped_data[k]]
        c == Construct("Edition", Fields("Edition"), with_work)
    IN  IF ~c.ok THEN Raised(fr, "ActivitySerializerError:missing")
        ELSE [fr EXCEPT !.book.work = work,
                        !.model = "Edition",
                        !.act = [cls |-> c.cls, f |-> c.f],
                        !.inst = None,
                        !.i = 0,
                        !.pc = "find"]

\* lines 130-132: the authors of the document are added to the work; then
\* create_edition_from_data(work, edition_data) is entered
BookAuthors(t, outcome) ==
    /\ ctx[t].op = "book" /\ ctx[t].pc = "b_authors"
    /\ LET fr == ctx[t]
           work == [fr.inst EXCEPT !.authors = @ \cup AuthorsOf(outcome)]
           rows == [k \in {work.pk} |-> Row(work)]
       IN  IF outcome = "raises"
           THEN /\ ctx' = [ctx EXCEPT ![t] = Raised(fr, "AuthorError")]
                /\ store' = store
           ELSE WriteRows(t, EnterEdition(fr, work, fr.book.edition_data.d), rows)
    /\ UNCHANGED <<nextpk, queue, calls>>
    /\ ConnUnchanged /\ FnUnchanged

\* create_edition_from_data called on its own, outside any transaction
EditionCall(t, work, edition_data, mappings) ==
    /\ ctx[t].pc = "idle"
    /\ LET fr == [IdleFrame EXCEPT
                     !.op = "edition", !.id = calls + 1,
                     !.book = [NoBook EXCEPT !.mappings = mappings,
                                             !.edition_data = Dict(edition_data)]]
       IN  ctx' = [ctx EXCEPT ![t] = EnterEdition(fr, work, edition_data)]
    /\ calls' = calls + 1
    /\ UNCHANGED <<store, nextpk, queue>>
    /\ ConnUnchanged /\ FnUnchanged

\* line 149: if not edition.authors.exists() and work.authors.exists()
InheritsAuthors(edition_authors, work_authors) ==
    edition_authors = {} /\ work_authors # {}

\* lines 141-152: the connector is set on the edition, which is saved; the
\* work gets the edition as its default and is saved; the authors of the
\* edition data are added, or the work's authors copied; the edition is
\* returned.  get_or_create_book returns it too, and its transaction commits.
EditionPost(t, outcome) ==
    /\ ctx[t].op \in {"book", "edition"} /\ ctx[t].pc = "e_post"
    /\ LET fr == ctx[t]
           edition == [fr.inst EXCEPT !.connector = Str("connector")]
           work == [fr.book.work EXCEPT !.default_edition = edition.pk]
           own == edition.authors \cup AuthorsOf(outcome)
           edition2 == [edition EXCEPT
                           !.authors = IF InheritsAuthors(own, work.authors)
                                       THEN work.authors ELSE own]
           saved == [k \in {edition.pk, work.pk} |->
                        IF k = edition.pk THEN Row(edition) ELSE Row(work)]
           final == [k \in {edition.pk, work.pk} |->
                        IF k = edition.pk THEN Row(edition2) ELSE Row(work)]
           fr1 == [fr EXCEPT !.book.work = work,
                             !.book.authors = AuthorsOf(outcome),
                             !.log = Append(@, "edition")]
       IN  IF outcome = "raises"
           THEN /\ ctx' = [ctx EXCEPT ![t] = Raised(fr1, "AuthorError")]
                /\ store' = IF fr.depth > 0 THEN store ELSE Commit(saved)
           ELSE /\ ctx' = [ctx EXCEPT ![t] = Returned(fr1, edition2)]
                /\ store' = Commit(
                      [k \in DOMAIN fr.pending \cup DOMAIN final |->
                          IF k \in DOMAIN final THEN final[k] ELSE fr.pending[k]])
    /\ UNCHANGED <<nextpk, queue, calls>>
    /\ ConnUnchanged /\ FnUnchanged

(***************************************************************************)
(* serialize(), the constructor on what it gave, and to_model(save=False)  *)
(***************************************************************************)
\* the activity objects of a variant that have every required field set
Originals ==
    {[id |-> i, type |-> Str("Object"), name |-> n, refs |-> r] :
        i \in {None} \cup {Str(u) : u \in URIs},
        n \in {Str(""), Str("n")},
        r \in {MISSING, None, List(RefList(MaxRefs, TRUE))}}

\* model.activity_serializer(**original.serialize()).to_model(model,
\* save=False): lines 130-134, lines 50-63, and to_model is entered
RoundTripCall(t, model, original) ==
    /\ ctx[t].pc = "idle"
    /\ LET data == serialize(original)
           c == Construct(model, Fields(model), data)
           fr == [IdleFrame EXCEPT
                     !.op = "trip", !.id = calls + 1, !.model = model,
                     !.save = FALSE, !.data = Dict(data)]
       IN  ctx' = [ctx EXCEPT ![t] =
                      IF ~c.ok
                      THEN Raised(fr, "ActivitySerializerError:missing")
                      ELSE [fr EXCEPT !.act = [cls |-> c.cls, f |-> c.f],
                                      !.pc = "find"]]
    /\ calls' = calls + 1
    /\ UNCHANGED <<store, nextpk, queue>>
    /\ ConnUnchanged /\ FnUnchanged

(***************************************************************************)
(* The systems.                                                            *)
(***************************************************************************)
ConnIdle ==
    /\ query_count = 0 /\ max_query_count = None /\ searches = 0
    /\ last_search = None

FnIdle == fin = None /\ fmid = None /\ fout = None

Init == SysInit /\ ConnIdle /\ FnIdle

\* every process but p is between calls
Quiet(p) == \A q \in Procs \ {p} : ctx[q].pc \in {"idle", "done"}

\* the threads are interchangeable: the first call is made by t1
Callers == IF calls = 0 THEN {"t1"} ELSE Threads

\* the concurrent system: two request threads resolving statuses and the
\* task worker, interleaved at every step.  (Status and Image declare no
\* image fields, so the image step has nothing to do here.)
Next ==
    \/ \E t \in Callers, remote_id \in URIs, refresh \in BOOLEAN :
          ResolveCall(t, "Status", remote_id, refresh, TRUE)
    \/ \E t \in Threads : \E resp \in RaceResponses(ctx[t].model) :
          ResolveFetch(t, resp)
    \/ \E t \in Threads : ResolveDedup(t)
    \/ \E t \in Threads : ResolveConstruct(t)
    \/ \E p \in Procs : ToModelFind(p)
    \/ \E p \in Procs : ToModelSimple(p)
    \/ \E p \in Procs : ToModelSave(p)
    \/ \E p \in Procs : ToModelM2M(p)
    \/ \E p \in Procs : ToModelReverse(p)
    \/ \E p \in Procs : ToModelReturn(p)
    \/ \E w \in Workers : TaskStart(w)
    \/ \E w \in Workers : \E resp \in RaceResponses(ctx[w].model) :
          TaskFetch(w, resp)
    \/ \E w \in Workers : TaskConstruct(w)
    \/ \E w \in Workers : TaskPost(w)

Spec == Init /\ [][Next]_vars

\* one behaviour of the sequential system resolves one entity type
SeqModels == IF calls = 0 THEN ResolveModels ELSE {ctx["t1"].model}

\* the first call meets an empty storage, where refresh changes nothing
SeqRefresh == IF calls = 0 THEN {FALSE} ELSE BOOLEAN

\* the sequential system: the request of t1 and then, when it is over, the
\* request of t2, with every kind of document and of failure; the tasks
\* they publish stay in the queue
SeqNext ==
    \/ \E t \in Callers, model \in SeqModels, remote_id \in URIs,
          refresh \in SeqRefresh, save \in BOOLEAN :
          Quiet(t) /\ ResolveCall(t, model, remote_id, refresh, save)
    \/ \E t \in Threads : \E resp \in Responses(ctx[t].model) :
          ResolveFetch(t, resp)
    \/ \E t \in Threads : ResolveDedup(t)
    \/ \E t \in Threads : ResolveConstruct(t)
    \/ \E t \in Threads : ToModelFind(t)
    \/ \E t \in Threads : ToModelSimple(t)
    \/ \E t \in Threads : ToModelImage(t)
    \/ \E t \in Threads : ToModelSave(t)
    \/ \E t \in Threads : ToModelM2M(t)
    \/ \E t \in Threads : ToModelReverse(t)
    \/ \E t \in Threads : ToModelReturn(t)

SeqSpec == Init /\ [][SeqNext]_vars

\* two requests resolving the same work at the same time, interleaved at
\* every step: the conversions race for the row of one remote id, and each
\* image binding that gets its file writes the instance on its own
RaceNext ==
    \/ \E t \in Callers : ResolveCall(t, "Work", "u1", FALSE, TRUE)
    \/ \E t \in Threads : \E resp \in RaceResponses(ctx[t].model) :
          ResolveFetch(t, resp)
    \/ \E t \in Threads : ResolveDedup(t)
    \/ \E t \in Threads : ResolveConstruct(t)
    \/ \E t \in Threads : ToModelFind(t)
    \/ \E t \in Threads : ToModelSimple(t)
    \/ \E t \in Threads : ToModelImage(t)
    \/ \E t \in Threads : ToModelSave(t)
    \/ \E t \in Threads : ToModelM2M(t)
    \/ \E t \in Threads : ToModelReverse(t)
    \/ \E t \in Threads : ToModelReturn(t)

RaceSpec == Init /\ [][RaceNext]_vars

\* a request that resolves a remote id and stores what it finds, and then
\* the round trip of an activity object of the same type through
\* serialize(), the constructor and to_model(save=False)
TripNext ==
    \/ \E model \in ResolveModels :
          calls = 0 /\ ResolveCall("t1", model, "u1", FALSE, TRUE)
    \/ \E t \in Threads : \E resp \in RaceResponses(ctx[t].model) :
          ResolveFetch(t, resp)
    \/ \E t \in Threads : ResolveDedup(t)
    \/ \E t \in Threads : ResolveConstruct(t)
    \/ \E t \in Threads : ToModelFind(t)
    \/ \E t \in Threads : ToModelSimple(t)
    \/ \E t \in Threads : ToModelImage(t)
    \/ \E t \in Threads : ToModelSave(t)
    \/ \E t \in Threads : ToModelM2M(t)
    \/ \E t \in Threads : ToModelReverse(t)
    \/ \E t \in Threads : ToModelReturn(t)
    \/ \E original \in Originals :
          /\ calls = 1 /\ Quiet("t2")
          /\ RoundTripCall("t2", ctx["t1"].model, original)

TripSpec == Init /\ [][TripNext]_vars

\* the documents a catalog answers a book request with
BookDocs ==
    {MkDoc(i, Str("Object"), r) :
        i \in {Absent, Str("u1"), Str("u2")},
        r \in {Absent, List(RefList(MaxRefs, TRUE))}}

BookResponses ==
    {[kind |-> "NotOk"]} \cup {[kind |-> "ok", json |-> d] : d \in BookDocs}

\* the second request is served by the same connector ...
SameConnector(mappings) ==
    calls > 0 => mappings = ctx["t1"].book.mappings

\* ... and the same host, answering as it answered the first ...
SameHost(t, resp) ==
    (t = "t2" /\ ctx["t1"].data # None)
    => resp = [kind |-> "ok", json |-> ctx["t1"].data.d]

\* ... and the connector's methods see the document as they saw it
SameShape(t, is_work, extract) ==
    (t = "t2" /\ ctx["t1"].book.extract # None)
    => is_work = ctx["t1"].book.is_work /\ extract = ctx["t1"].book.extract

\* the catalog's documents carry no cover: the image bindings attach nothing
NoCover(t) == ctx'[t].pc # "done" /\ ~ctx'[t].inst.image

\* the first request has returned an edition of a work that is in storage
FirstBookDone ==
    /\ ctx["t1"].op = "book" /\ ctx["t1"].pc = "done" /\ ctx["t1"].err = ""
    /\ ctx["t1"].book.work # None
    /\ ctx["t1"].book.work.pk \in DOMAIN store

\* the book requests in sequence: get_or_create_book for a remote id, and
\* when it is over either the same request again or, after a success,
\* create_edition_from_data for the same work with the same edition data
BookNext ==
    \/ \E t \in Callers, mappings \in ConnectorMappings :
          Quiet(t) /\ SameConnector(mappings) /\ BookCall(t, "u1", mappings)
    \/ \E t \in Threads : \E resp \in BookResponses :
          SameHost(t, resp) /\ BookFetch(t, resp)
    \/ \E t \in Threads, is_work \in BOOLEAN, extract \in Extractions :
          SameShape(t, is_work, extract) /\ BookShape(t, is_work, extract)
    \/ \E t \in Threads : ToModelFind(t)
    \/ \E t \in Threads : ToModelSimple(t)
    \/ \E t \in Threads : ToModelImage(t) /\ NoCover(t)
    \/ \E t \in Threads : ToModelSave(t)
    \/ \E t \in Threads : ToModelM2M(t)
    \/ \E t \in Threads : ToModelReverse(t)
    \/ \E t \in Threads : ToModelReturn(t)
    \/ \E t \in Threads, outcome \in AuthorOutcomes : BookAuthors(t, outcome)
    \/ \E t \in Threads, outcome \in AuthorOutcomes : EditionPost(t, outcome)
    \/ /\ FirstBookDone /\ Quiet("t2")
       /\ EditionCall("t2", Load(store, ctx["t1"].book.work.pk),
                       ctx["t1"].book.edition_data.d, ctx["t1"].book.mappings)

BookSpec == Init /\ [][BookNext]_vars

\* what the host of a referenced object answers: its document, with an id
\* or with a null id
RedoResponses ==
    {[kind |-> "ok", json |-> MkDoc(i, Str("Object"), Absent)] :
        i \in {Str("u1"), None}}

\* the host answers a redelivered task as it answered the first run
SameAnswer(w, resp) ==
    ctx[w].first # None => resp.json = ctx[w].first.data.d

\* one request resolves an object with references; then the worker runs the
\* tasks, each of which may be delivered a second time after it succeeded
RedoNext ==
    \/ \E model \in ResolveModels :
          calls = 0 /\ ResolveCall("t1", model, "u1", FALSE, TRUE)
    \/ \E t \in Threads : \E resp \in RaceResponses(ctx[t].model) :
          ResolveFetch(t, resp)
    \/ \E t \in Threads : ResolveDedup(t)
    \/ \E t \in Threads : ResolveConstruct(t)
    \/ \E p \in Procs : ToModelFind(p)
    \/ \E p \in Procs : ToModelSimple(p)
    \/ \E p \in Procs : ToModelImage(p)
    \/ \E p \in Procs : ToModelSave(p)
    \/ \E p \in Procs : ToModelM2M(p)
    \/ \E p \in Procs : ToModelReverse(p)
    \/ \E p \in Procs : ToModelReturn(p)
    \/ \E w \in Workers : Quiet(w) /\ TaskStart(w)
    \/ \E w \in Workers : \E resp \in RedoResponses :
          SameAnswer(w, resp) /\ TaskFetch(w, resp)
    \/ \E w \in Workers : TaskConstruct(w)
    \/ \E w \in Workers : TaskPost(w)
    \/ \E w \in Workers : TaskRedeliver(w)

RedoSpec == Init /\ [][RedoNext]_vars

\* the document of a work that lists its editions
WorkWithEditions == MkDoc(Str("u1"), Str("Object"), List(RefList(MaxRefs, TRUE)))

\* one get_or_create_book request for a work that lists its editions, and
\* the task worker, interleaved at every step
BookTaskNext ==
    \/ calls = 0 /\ BookCall("t1", "u1", BookMappings)
    \/ \E t \in Threads :
          BookFetch(t, [kind |-> "ok", json |-> WorkWithEditions])
    \/ \E t \in Threads, is_work \in BOOLEAN, extract \in Extractions :
          BookShape(t, is_work, extract)
    \/ \E p \in Procs : ToModelFind(p)
    \/ \E p \in Procs : ToModelSimple(p)
    \/ \E p \in Procs : ToModelImage(p) /\ NoCover(p)
    \/ \E p \in Procs : ToModelSave(p)
    \/ \E p \in Procs : ToModelM2M(p)
    \/ \E p \in Procs : ToModelReverse(p)
    \/ \E p \in Procs : ToModelReturn(p)
    \/ \E t \in Threads, outcome \in AuthorOutcomes : BookAuthors(t, outcome)
    \/ \E t \in Threads, outcome \in AuthorOutcomes : EditionPost(t, outcome)
    \/ \E w \in Workers : TaskStart(w)
    \/ \E w \in Workers : \E resp \in RaceResponses(ctx[w].model) :
          TaskFetch(w, resp)
    \/ \E w \in Workers : TaskConstruct(w)
    \/ \E w \in Workers : TaskPost(w)

BookTaskSpec == Init /\ [][BookTaskNext]_vars

\* a connector with any ceiling and any count so far, being searched
ConnInit ==
    /\ SysInit /\ FnIdle
    /\ max_query_count \in {None} \cup {Num(n) : n \in 0..MaxQueryCount}
    /\ query_count \in 0..MaxQueryCount
    /\ searches = 0
    /\ last_search = None

ConnNext == \E answer \in SearchAnswers : Search(answer)

ConnSpec == ConnInit /\ [][ConnNext]_vars

\* the constructor applied to one input
FnInit ==
    /\ SysInit /\ ConnIdle
    /\ fin \in KwargsInputs \cup RecordInputs
    /\ fmid = None
    /\ fout = None

FnNext == ConstructDirect \/ MapRecord \/ ConstructMapped

FnSpec == FnInit /\ [][FnNext]_vars

(***************************************************************************)
(* Properties.                                                             *)
(***************************************************************************)
\* the stored entities of a type that carry the given remote id
EntitiesOf(model, remote_id) ==
    {k \in DOMAIN store : store[k].model = model /\ store[k].remote_id = remote_id}

\* how often an event occurs among the first n entries of a log
RECURSIVE CountIn(_, _, _)
CountIn(log, n, e) ==
    IF n = 0 THEN 0
    ELSE CountIn(log, n - 1, e) + (IF log[n] = e THEN 1 ELSE 0)

Occurs(log, e) == \E i \in 1..Len(log) : log[i] = e

\* two calls in sequence for the same remote id, both with refresh=False
\* and save=True, both returning an entity, the host answering alike
TwoInSequence(first, second) ==
    /\ first.op = "resolve" /\ first.pc = "done"
    /\ second.op = "resolve" /\ second.pc = "done"
    /\ first.model = second.model /\ first.remote_id = second.remote_id
    /\ ~first.refresh /\ ~second.refresh /\ first.save /\ second.save
    /\ first.err = "" /\ second.err = ""
    /\ first.ret # None /\ second.ret # None
    /\ (second.fetched => second.data = first.data)

\* C1: resolving the same remote id twice in sequence (refresh=False,
\* save=True, same document both times) leaves exactly one entity of the
\* type in storage, and the second call returns the entity the first returned
C1_ResolveTwiceSameEntity ==
    TwoInSequence(ctx["t1"], ctx["t2"]) =>
        /\ ctx["t2"].ret.pk = ctx["t1"].ret.pk
        /\ Cardinality({k \in DOMAIN store : store[k].model = ctx["t1"].model}) = 1

\* at most one stored entity per entity type and remote id
OnePerRemoteId ==
    \A k1, k2 \in DOMAIN store :
        (/\ k1 # k2
         /\ store[k1].model = store[k2].model
         /\ store[k1].remote_id # None)
        => store[k1].remote_id # store[k2].remote_id

\* a to_model call that is given no instance and sees an entity with the
\* document's id goes on with that entity, not with a new one
LookupBeforeCreate ==
    \A p \in Procs :
        (/\ ctx[p].pc = "find" /\ ctx'[p].pc = "simple"
         /\ ctx[p].inst = None
         /\ find_existing(View(p), ctx[p].model, serialize(ctx[p].act.f)) # 0)
        => ctx'[p].inst.pk =
              find_existing(View(p), ctx[p].model, serialize(ctx[p].act.f))

\* C2 (as amended): storage never holds two entities of one type with the
\* same remote id, and a conversion that sees an entity with the
\* document's id updates it instead of creating one; calls that overlap may
\* both pass the lookup, and then storage refuses the later write
C2_AtMostOnePerRemoteId == []OnePerRemoteId /\ [][LookupBeforeCreate]_vars

\* C2 (as claimed): the lookup before creation is what keeps a second entity
\* out: when a new instance is about to be written, storage holds no entity
\* with its remote id
C2_LookupAloneSuffices ==
    \A p \in Procs :
        (/\ ctx[p].pc = "save" /\ ctx[p].inst.pk = 0
         /\ ctx[p].inst.remote_id # None)
        => EntitiesOf(ctx[p].model, ctx[p].inst.remote_id) = {}

\* two calls passed the lookup for one remote id; one wrote the entity, the
\* other was refused by storage
C2_Witness ==
    \E p, q \in Threads :
        /\ p # q
        /\ ctx[p].err = "ActivitySerializerError:integrity"
        /\ ctx[q].pc = "done" /\ ctx[q].err = "" /\ ctx[q].ret # None
        /\ Occurs(ctx[q].log, "save")
        /\ Cardinality(EntitiesOf("Status", ctx[q].ret.remote_id)) = 1

\* C3: with a ceiling N configured, is_available() is true exactly until N
\* searches have been made: every search() advances the count by one
C3_BudgetGate ==
    max_query_count # None =>
        (is_available <=> query_count + searches < max_query_count.n)

\* the place of an event in the order of to_model's steps
Rank(e) ==
    CASE e = "simple" -> 1
      [] e \in {"image", "write"} -> 2
      [] e = "save" -> 3
      [] e = "m2m" -> 4
      [] OTHER -> 5

\* the order of the steps of one conversion, as its log shows it
StepsInOrder(fr) ==
    LET log == fr.log
        n == Len(log)
    IN  /\ \A i, j \in 1..n : i < j => Rank(log[i]) <= Rank(log[j])
        /\ \A e \in {"simple", "save", "m2m"} : CountIn(log, n, e) <= 1
        /\ Occurs(log, "image") => Occurs(log, "simple")
        /\ Occurs(log, "save") =>
              /\ Occurs(log, "simple")
              /\ CountIn(log, n, "image") = ImageFieldCount(fr.model)
        /\ Occurs(log, "m2m") => Occurs(log, "save")
        /\ Occurs(log, "enqueue") => Occurs(log, "m2m")
        /\ \A i \in 1..n :
              log[i] = "write" => i > 1 /\ log[i - 1] = "image" /\ fr.save

\* C4 (as amended): in one to_model call the simple bindings come first,
\* then every image binding, then the save of the transaction, then the
\* many-to-many bindings, then the enqueueing of the reverse tasks; but an
\* image binding run with save=True may itself write the instance, so a
\* write can happen while image bindings are still to come
C4_StepOrder ==
    \A t \in Threads : ctx[t].op = "resolve" => StepsInOrder(ctx[t])

\* C4 (as claimed): no write of the instance to storage happens before
\* every image binding has been applied
C4_NoWriteBeforeAllImages ==
    \A t \in Threads : \A i \in 1..Len(ctx[t].log) :
        ctx[t].log[i] \in {"write", "save"} =>
            CountIn(ctx[t].log, i, "image") = ImageFieldCount(ctx[t].model)

\* a conversion that went through every step, its first image binding
\* having written the instance before the second was applied
C4_Witness ==
    \E t \in Threads :
        LET fr == ctx[t]
        IN  /\ fr.pc = "done" /\ fr.err = "" /\ fr.save
            /\ Len(fr.log) >= 3 /\ fr.log[3] = "write"
            /\ CountIn(fr.log, Len(fr.log), "image") = MaxImageFields
            /\ Occurs(fr.log, "save") /\ Occurs(fr.log, "m2m")
            /\ Occurs(fr.log, "enqueue")

\* the references a document holds in its reverse-relation field
RefCount(model, data) ==
    IF /\ ReverseFields(model) # <<>>
       /\ data.st = "dict"
       /\ "refs" \in DOMAIN data.d
       /\ data.d["refs"].st = "list"
    THEN Len(data.d["refs"].l)
    ELSE 0

\* the tasks of call c that nobody has taken yet
Waiting(c) == {i \in 1..Len(queue) : queue[i].src = c}

\* a to_model call with save=True that has reached its return statement
\* after the transaction
AtReturn(fr) == fr.pc = "return" /\ Occurs(fr.log, "m2m")

\* C5 (as amended): a to_model call with save=True publishes exactly one
\* task per reference of its reverse fields and returns the persisted
\* instance without running or awaiting any of them; each published task
\* names the instance as its origin.  The tasks run on the worker, which
\* may have taken some of them before to_model returns.
C5_OneTaskPerReference ==
    \A p \in Threads :
        AtReturn(ctx[p]) =>
            /\ CountIn(ctx[p].log, Len(ctx[p].log), "enqueue")
                  = RefCount(ctx[p].model, ctx[p].data)
            /\ Cardinality(Waiting(ctx[p].id)) <= RefCount(ctx[p].model, ctx[p].data)
            /\ ctx[p].inst.pk \in DOMAIN store
            /\ \A i \in Waiting(ctx[p].id) :
                  /\ queue[i].origin_model_name = ctx[p].model
                  /\ queue[i].related_remote_id = ctx[p].inst.remote_id

\* C5 (as claimed): when to_model returns, none of its tasks has been
\* started: all of them are still waiting in the queue
C5_NoTaskStartedAtReturn ==
    \A p \in Threads :
        AtReturn(ctx[p]) =>
            Cardinality(Waiting(ctx[p].id)) = RefCount(ctx[p].model, ctx[p].data)

\* to_model is about to return having published MaxRefs tasks, and the
\* worker is already converting the first of them
C5_Witness ==
    \E p \in Threads : \E w \in Workers :
        /\ AtReturn(ctx[p])
        /\ RefCount(ctx[p].model, ctx[p].data) = MaxRefs
        /\ CountIn(ctx[p].log, Len(ctx[p].log), "enqueue") = MaxRefs
        /\ ctx[w].op = "task" /\ ctx[w].task.src = ctx[p].id
        /\ ctx[w].fetched

\* the input lacks a field ActivityObject declares without a default
LacksRequired(data) ==
    data.st = "dict" /\ ~({"id", "type"} \subseteq DOMAIN data.d)

MissingField == "ActivitySerializerError:missing"

\* a call fails on a missing field exactly when its input lacks one, and has
\* then done nothing; an input that lacks one never reaches to_model
MissingFieldFails ==
    \A p \in Procs :
        LET fr == ctx[p]
        IN  /\ fr.err = MissingField =>
                  LacksRequired(fr.data) /\ fr.log = <<>> /\ fr.ret = None
            /\ LacksRequired(fr.data) =>
                  /\ fr.pc \in {"dedup", "construct", "sr_construct", "done"}
                  /\ fr.log = <<>>
                  /\ fr.pc = "done" =>
                        \/ fr.err = MissingField
                        \/ fr.err = "" /\ fr.ret # None /\ ~fr.refresh

\* the step on which the constructor fails leaves storage and queue alone
MissingFieldStep ==
    \A p \in Procs :
        (ctx[p].err # MissingField /\ ctx'[p].err = MissingField)
        => store' = store /\ queue' = queue /\ nextpk' = nextpk

\* C6: constructing an ActivityObject variant from input that lacks id or
\* type fails with ActivitySerializerError, and only then; inside
\* resolve_remote_id and set_related_field the failure comes before any
\* write or enqueue, so no entity is created or changed and no task published
C6_MissingFieldFails == []MissingFieldFails /\ [][MissingFieldStep]_vars

\* a resolve_remote_id call and a set_related_field task have both failed
\* on a document without an id
C6_Witness ==
    \E t \in Threads : \E w \in Workers :
        /\ ctx[t].op = "resolve" /\ ctx[t].err = MissingField
        /\ ctx[w].op = "task" /\ ctx[w].err = MissingField
        /\ "id" \notin DOMAIN ctx[t].data.d
        /\ "id" \notin DOMAIN ctx[w].data.d

\* C7: every successfully constructed ActivityObject has a non-empty id,
\* also when its input came out of dict_from_mappings
C7_NonEmptyId ==
    (fout # None /\ fout.ok) =>
        (fout.f["id"].st = "str" /\ fout.f["id"].s # "")

\* C8: whenever the fetch inside resolve_remote_id fails, the call fails
\* with the ActivitySerializerError that names model and remote id, returns
\* nothing and has written nothing
C8_FetchFailureIsSerializerError ==
    \A t \in Threads :
        LET fr == ctx[t]
        IN  (fr.op = "resolve" /\ fr.pc = "done" /\ fr.fetched /\ fr.data = None)
            => /\ fr.err = "ActivitySerializerError:connect"
               /\ fr.ret = None
               /\ fr.log = <<>>

\* a refreshing call that found an entity, by the remote id or by the
\* document's identifiers
RefreshHit(fr) == fr.op = "resolve" /\ fr.refresh /\ fr.result # 0

\* no call was started after the call of t
Latest(t) == \A q \in Threads \ {t} : ctx[q].id < ctx[t].id

\* a refreshing call has fetched once it is past the fetch; when it found
\* an entity and succeeds, it returns that entity, as stored
RefreshFetchesAndUpdates ==
    \A t \in Threads :
        LET fr == ctx[t]
        IN  /\ (fr.op = "resolve" /\ fr.refresh /\ fr.pc # "fetch") => fr.fetched
            /\ (RefreshHit(fr) /\ fr.pc = "done" /\ fr.err = "" /\ Latest(t)) =>
                  /\ fr.ret # None
                  /\ fr.ret.pk = fr.result
                  /\ Occurs(fr.log, "save") => store[fr.result] = Row(fr.ret)

\* a refreshing call that found an entity creates and deletes none
RefreshCreatesNothing ==
    \A t \in Threads :
        (RefreshHit(ctx[t]) /\ ctx[t].pc # "done")
        => DOMAIN store' = DOMAIN store /\ nextpk' = nextpk

\* C9 (as amended): resolve_remote_id with refresh=True always fetches; when
\* an entity exists it is updated in place and returned, and the call
\* creates no entity.  The update covers the remote id, which becomes the
\* document's id.
C9_RefreshUpdatesInPlace ==
    []RefreshFetchesAndUpdates /\ [][RefreshCreatesNothing]_vars

\* C9 (as claimed): after a successful refresh of a remote id that had an
\* entity, there is still exactly one entity with that remote id
C9_CountForRemoteIdUnchanged ==
    LET first == ctx["t1"]
        fr == ctx["t2"]
    IN  (/\ fr.op = "resolve" /\ fr.pc = "done" /\ fr.refresh /\ fr.err = ""
         /\ first.pc = "done" /\ first.err = "" /\ first.save
         /\ first.ret # None /\ first.ret.remote_id = fr.remote_id)
        => Cardinality(EntitiesOf(fr.model, fr.remote_id)) = 1

\* a refresh has updated the entity of its remote id in place, and the
\* entity now carries the document's id
C9_Witness ==
    LET first == ctx["t1"]
        fr == ctx["t2"]
    IN  /\ RefreshHit(fr) /\ fr.pc = "done" /\ fr.err = ""
        /\ first.pc = "done" /\ first.ret # None
        /\ first.ret.remote_id = fr.remote_id
        /\ fr.ret.pk = first.ret.pk
        /\ Occurs(fr.log, "save")
        /\ store[fr.result].remote_id # fr.remote_id

\* the call step of a resolve_remote_id(refresh=False) whose remote id has
\* an entity: the call is over, with that entity, and nothing else changed
EarlyReturn ==
    \A t \in Threads :
        LET fr == ctx'[t]
            hit == find_existing_by_remote_id(store, fr.model, fr.remote_id)
        IN  (ctx[t].pc = "idle" /\ fr.pc # "idle" /\ ~fr.refresh /\ hit # 0)
            => /\ fr.pc = "done" /\ fr.err = ""
               /\ fr.ret = Load(store, hit)
               /\ ~fr.fetched /\ fr.log = <<>>
               /\ store' = store /\ queue' = queue /\ nextpk' = nextpk

\* C10: resolve_remote_id with refresh=False, when an entity with the remote
\* id exists, returns that entity at once: no fetch, no change of storage,
\* no task
C10_EarlyReturn == [][EarlyReturn]_vars

\* a second call has returned the stored entity without fetching
C10_Witness ==
    \E t \in Threads :
        LET fr == ctx[t]
        IN  /\ fr.op = "resolve" /\ fr.pc = "done" /\ ~fr.refresh
            /\ fr.ret # None /\ ~fr.fetched /\ fr.log = <<>>
            /\ fr.ret.pk \in DOMAIN store

\* a call with save=False has applied simple and image bindings only; when
\* its conversion is over it returns the instance it filled: the entity it
\* found, or a new one without a primary key
DryRunState ==
    \A t \in Threads :
        LET fr == ctx[t]
        IN  (fr.op = "resolve" /\ ~fr.save) =>
               /\ \A i \in 1..Len(fr.log) : fr.log[i] \in {"simple", "image"}
               /\ (fr.pc = "done" /\ fr.err = "" /\ Occurs(fr.log, "simple")) =>
                     /\ fr.ret # None
                     /\ fr.ret.pk = fr.result
                     /\ fr.ret.pk # 0 => fr.ret.pk \in DOMAIN store
                     /\ fr.ret.m2m =
                           (fr.ret.pk # 0 /\ store[fr.ret.pk].m2m)
                     /\ fr.data.d["id"].st = "str" =>
                           fr.ret.remote_id = fr.data.d["id"]

\* no step of a call with save=False changes storage or the task queue
DryRunStep ==
    \A t \in Threads :
        (ctx[t].op = "resolve" /\ ~ctx[t].save /\ ctx[t].pc # "done")
        => store' = store /\ nextpk' = nextpk /\ queue' = queue

\* C11: to_model called with save=False returns the in-memory instance and
\* leaves storage unchanged: nothing is written while the simple and image
\* bindings are applied, the instance is not saved, no many-to-many binding
\* is applied and no reverse-relation task is published
C11_DryRunWritesNothing == []DryRunState /\ [][DryRunStep]_vars

\* a conversion with save=False of a document holding references has
\* returned a new instance with an image attached, and storage is empty
C11_Witness ==
    \E t \in Threads :
        LET fr == ctx[t]
        IN  /\ fr.op = "resolve" /\ ~fr.save /\ fr.pc = "done" /\ fr.err = ""
            /\ CountIn(fr.log, Len(fr.log), "image") = MaxImageFields
            /\ fr.ret # None /\ fr.ret.pk = 0 /\ fr.ret.image
            /\ fr.ret.remote_id = fr.data.d["id"]
            /\ RefCount(fr.model, fr.data) = MaxRefs
            /\ store = NoRows /\ queue = <<>>

IntegrityFailure == "ActivitySerializerError:integrity"

\* a conversion that failed on the write of line 96 had written nothing,
\* applied no many-to-many binding and published no task, and returns
\* nothing; the entity with the document's id is the one the winner wrote
ConflictState ==
    \A p \in Threads :
        LET fr == ctx[p]
        IN  fr.err = IntegrityFailure =>
               /\ fr.pc = "done" /\ fr.ret = None
               /\ \A i \in 1..Len(fr.log) : fr.log[i] \in {"simple", "image"}
               /\ Cardinality(EntitiesOf(fr.model, fr.data.d["id"])) = 1
               /\ \A i \in 1..Len(queue) : queue[i].src # fr.id

\* the write of line 96, when storage refuses it, ends the call with
\* ActivitySerializerError at once, and changes neither storage nor queue
ConflictStep ==
    \A p \in Threads :
        (/\ ctx[p].pc = "save" /\ ctx'[p] # ctx[p]
         /\ Conflict(View(p), Saved(ctx[p].inst).pk, Row(ctx[p].inst)))
        => /\ ctx'[p].pc = "done" /\ ctx'[p].err = IntegrityFailure
           /\ store' = store /\ nextpk' = nextpk /\ queue' = queue

FallbackCase(fr, kinds) ==
    /\ fr.op = "book" /\ fr.pc = "done"
    /\ fr.book.extract # None /\ fr.book.extract.kind \in kinds
    /\ ~fr.book.is_work
    /\ fr.book.mappings # <<>>
    /\ fr.err # "AuthorError"

\* the call succeeded with a work built from the mapped document and an
\* edition built from the document itself, both stored, with one remote id
FellBack(fr) ==
    /\ fr.err = "" /\ fr.ret # None
    /\ fr.book.work_data = Dict(dict_from_mappings(fr.data.d, fr.book.mappings))
    /\ fr.book.edition_data = fr.data
    /\ fr.ret.model = "Edition" /\ fr.ret.pk \in DOMAIN store
    /\ fr.book.work.pk \in DOMAIN store
    /\ store[fr.book.work.pk].model = "Work"
    /\ store[fr.book.work.pk].remote_id = fr.ret.remote_id
    /\ store[fr.ret.pk].remote_id = fr.ret.remote_id

C14_KeysOnlyForValues ==
    (fin # None /\ fin.kind = "record" /\ fmid # None) =>
        /\ \A k \in DOMAIN fmid.d : fmid.d[k] # None
        /\ \A i \in 1..Len(fin.mappings) :
              get_value(fin.mappings[i], fin.data) # None
              => fin.mappings[i].local_field \in DOMAIN fmid.d

\* a payload that carries no data: it has no key, or every mapped field of
\* it is absent
CarriesNoData(payload) == \A k \in DOMAIN payload : payload[k] = None

\* C15: get_or_create_book fails with ConnectorException, before anything
\* is converted or written, whenever the work payload or the edition
\* payload it derived carries no data, in the work-shaped and in the
\* edition-shaped branch; a work payload in which every mapped field is
\* absent counts as empty
C15_EmptyPayloadFails ==
    \A t \in Threads :
        LET fr == ctx[t]
        IN  (/\ fr.op = "book" /\ fr.book.work_data # None
             /\ \/ CarriesNoData(fr.book.work_data.d)
                \/ CarriesNoData(fr.book.edition_data.d))
            => /\ fr.pc = "done" /\ fr.err = "ConnectorException"
               /\ fr.ret = None /\ fr.log = <<>> /\ fr.pending = NoRows

\* the stored entities of a type
Stored(model) == {k \in DOMAIN store : store[k].model = model}

\* a get_or_create_book call that failed while creating the edition, after
\* its work had been written
EditionFailed(fr) ==
    /\ fr.op = "book" /\ fr.pc = "done" /\ fr.err # ""
    /\ fr.model = "Edition" /\ Occurs(fr.log, "m2m")

\* until get_or_create_book returns, none of its writes is in storage
OneTransactionStep ==
    \A t \in Threads :
        (/\ ctx[t].op = "book" /\ ctx[t].pc # "done"
         /\ ~(ctx'[t].pc = "done" /\ ctx'[t].err = ""))
        => store' = store

\* a get_or_create_book call that failed left nothing behind; the same
\* request made again after a failed edition creation starts afresh, and
\* when it succeeds storage holds one work and one edition
OneTransactionState ==
    /\ \A t \in Threads :
          (ctx[t].op = "book" /\ ctx[t].pc = "done") => ctx[t].pending = NoRows
    /\ (EditionFailed(ctx["t1"]) /\ calls = 1) => store = NoRows
    /\ (/\ EditionFailed(ctx["t1"])
        /\ ctx["t2"].op = "book" /\ ctx["t2"].pc = "done" /\ ctx["t2"].err = "")
       => /\ Stored("Work") = {ctx["t2"].book.work.pk}
          /\ Stored("Edition") = {ctx["t2"].ret.pk}
          /\ ctx["t2"].book.work.pk # ctx["t1"].book.work.pk

\* C16 (as amended): get_or_create_book writes the work and the edition in
\* one transaction (line 93): if the creation of the edition fails after the
\* work was written, the work is rolled back with it and storage is as it
\* was before the call; a later get_or_create_book for the same remote id
\* finds nothing to reuse and creates one work and one edition
C16_OneTransaction == []OneTransactionState /\ [][OneTransactionStep]_vars

\* C16 (as claimed): when the creation of the edition fails after the work
\* was written, the work stays in storage
C16_WorkStaysWithoutEdition ==
    \A t \in Threads :
        (EditionFailed(ctx[t]) /\ ctx[t].id = calls)
        => \E k \in Stored("Work") : k = ctx[t].book.work.pk

\* the first request failed while creating the edition; the second, made
\* again, created another work and its edition, and storage holds just those
C16_Witness ==
    /\ EditionFailed(ctx["t1"])
    /\ ctx["t2"].op = "book" /\ ctx["t2"].pc = "done" /\ ctx["t2"].err = ""
    /\ Cardinality(Stored("Work")) = 1 /\ Cardinality(Stored("Edition")) = 1
    /\ store[ctx["t2"].ret.pk].parent = Str("u1")
    /\ store[ctx["t2"].book.work.pk].default_edition = ctx["t2"].ret.pk

\* the activity object a round trip started from: what serialize() gave,
\* on the declared fields
OriginalOf(fr) == [k \in FieldNames(Fields(fr.model)) |-> fr.data.d[k]]

\* the stored entities that point back to an instance
RelatedTo(inst) ==
    {k \in DOMAIN store : inst.remote_id # None /\ store[k].parent = inst.remote_id}

\* the constructor gives back, on every declared field, what serialize()
\* was given: '@context' is dropped as an unknown key
Reconstructed(fr) ==
    fr.act # None =>
        \A k \in FieldNames(Fields(fr.model)) : fr.act.f[k] = OriginalOf(fr)[k]

\* what to_model(save=False) returns at the end of a round trip: nothing
\* when the model ignores the activity; else the instance it filled, the
\* deduplicated entity or a new one, with the simple fields of the
\* original; the many-to-many and the reverse fields are not applied
RoundTripState ==
    \A t \in Threads :
        LET fr == ctx[t]
            found == find_existing(store, fr.model, fr.data.d)
        IN  fr.op = "trip" =>
               /\ Reconstructed(fr)
               /\ \A i \in 1..Len(fr.log) : fr.log[i] \in {"simple", "image"}
               /\ fr.pc = "done" =>
                     /\ fr.err = ""
                     /\ fr.ret = None => (HasIgnoreActivity(fr.model) /\ fr.log = <<>>)
                     /\ fr.ret # None =>
                           /\ fr.ret.pk = found
                           /\ OriginalOf(fr)["id"].st = "str" =>
                                 fr.ret.remote_id = OriginalOf(fr)["id"]
                           /\ OriginalOf(fr)["id"].st # "str" =>
                                 fr.ret.remote_id = None
                           /\ fr.ret.m2m = (found # 0 /\ store[found].m2m)

RoundTripStep ==
    \A t \in Threads :
        (ctx[t].op = "trip" /\ ctx[t].pc # "done")
        => store' = store /\ nextpk' = nextpk /\ queue' = queue

\* C17 (as amended): serialize() followed by the constructor of the same
\* variant gives an activity object equal to the original on every declared
\* field; to_model(save=False) on it returns, unless the model ignores the
\* activity (then it returns None), an in-memory instance that carries the
\* original's simple fields.  Many-to-many and reverse fields are applied
\* only after a save, so the instance does not carry them; nothing is
\* written.
C17_RoundTripSimpleFields == []RoundTripState /\ [][RoundTripStep]_vars

\* C17 (as claimed): the round trip ends with an in-memory instance equal to
\* the original on every declared field: its remote id is the id, its
\* many-to-many fields are set and its related entities are those of the
\* reverse field
C17_RoundTripEveryField ==
    \A t \in Threads :
        LET fr == ctx[t]
        IN  (fr.op = "trip" /\ fr.pc = "done") =>
               /\ fr.err = "" /\ fr.ret # None
               /\ fr.ret.remote_id = OriginalOf(fr)["id"]
               /\ fr.ret.m2m
               /\ Cardinality(RelatedTo(fr.ret)) = RefCount(fr.model, fr.data)

\* a round trip of an object with a name and references has ended with the
\* entity storage holds for its id, and storage is as it was
C17_Witness ==
    LET fr == ctx["t2"]
    IN  /\ fr.op = "trip" /\ fr.pc = "done" /\ fr.ret # None
        /\ fr.ret.pk \in DOMAIN store
        /\ fr.ret.remote_id = Str("u1")
        /\ OriginalOf(fr)["name"] = Str("n")
        /\ RefCount(fr.model, fr.data) = MaxRefs
        /\ Occurs(fr.log, "image")
        /\ RelatedTo(fr.ret) = {}

\* the originating entity a task names is in storage
OriginStored(task) ==
    find_existing_by_remote_id(
        store, task.origin_model_name, task.related_remote_id) # 0

\* C18: whenever a set_related_field task can execute, the originating
\* entity it names is present and visible in storage: a task is published
\* only after the write of its originating entity is committed, also when
\* to_model runs inside an enclosing transaction; so no task fails on the
\* lookup of its origin
C18_OriginCommittedBeforeTask ==
    /\ \A i \in 1..Len(queue) : OriginStored(queue[i])
    /\ \A w \in Workers :
          ctx[w].op = "task" =>
             /\ ctx[w].err # "ValueError"
             /\ ctx[w].pc # "done" => OriginStored(ctx[w].task)

\* the stored entities of a model, each with its back-pointer
Related(rows, model) ==
    {<<k, rows[k].remote_id, rows[k].parent>> :
        k \in {j \in DOMAIN rows : rows[j].model = model}}

\* a redelivered run of set_related_field ends
RedeliveredEnd(w) ==
    /\ ctx[w].op = "task" /\ ctx[w].first # None
    /\ ctx[w].pc # "done" /\ ctx'[w].pc = "done"

\* C19: a redelivered run of set_related_field after a run that succeeded
\* succeeds as well and leaves the related entities as the first run left
\* them: the same entities with the same back-pointers, no duplicate
C19_RedeliveryConverges ==
    [][\A w \in Workers :
          RedeliveredEnd(w) =>
             /\ ctx'[w].err = ""
             /\ Related(store', ctx[w].model) = Related(store, ctx[w].model)]_vars

\* create_edition_from_data has been called again for the work of the first
\* request, with the same edition data, and is over
SecondEditionCall ==
    /\ FirstBookDone
    /\ ctx["t2"].op = "edition" /\ ctx["t2"].pc = "done"

\* C20: create_edition_from_data invoked a second time for the same work
\* with the same edition data creates no second edition: storage holds the
\* editions it held after the first call, the edition returned is the same
\* entity, and it is the work's default edition
C20_SecondEditionCallSameEdition ==
    SecondEditionCall =>
       /\ Stored("Edition") = {ctx["t1"].ret.pk}
       /\ ctx["t2"].err = "" =>
             /\ ctx["t2"].ret.pk = ctx["t1"].ret.pk
             /\ store[ctx["t1"].book.work.pk].default_edition
                   = ctx["t1"].ret.pk

\* a task has its activity built and looks its originating entity up, which
\* is not there
OriginMissing(w) ==
    /\ ctx[w].op = "task" /\ ctx[w].pc = "sr_construct"
    /\ Construct(ctx[w].model, VariantFields, ctx[w].data.d).ok
    /\ find_existing_by_remote_id(
           View(w), ctx[w].task.origin_model_name,
           ctx[w].task.related_remote_id) = 0

\* the task's lookup step: it ends the task with ValueError and changes
\* neither storage nor the queue
OriginMissingStep ==
    \A w \in Workers :
        (OriginMissing(w) /\ ctx'[w] # ctx[w]) =>
            /\ ctx'[w].pc = "done" /\ ctx'[w].err = "ValueError"
            /\ store' = store /\ queue' = queue

\* a task that ended with ValueError has written nothing, inside its
\* transaction or outside
OriginMissingState ==
    \A w \in Workers :
        (ctx[w].op = "task" /\ ctx[w].err = "ValueError") =>
            /\ ctx[w].pending = NoRows
            /\ ctx[w].log = <<>>

\* C21: when set_related_field does not find the originating entity, the
\* task fails with ValueError and has no effect on storage: no related
\* entity is created or modified and no task is enqueued, for an embedded
\* payload as for a bare URI
C21_MissingOriginNoEffect ==
    []OriginMissingState /\ [][OriginMissingStep]_vars

\* a task for a bare URI has fetched the document and then failed on the
\* lookup of its origin
C21_Witness ==
    \E w \in Workers :
        /\ ctx[w].op = "task" /\ ctx[w].err = "ValueError"
        /\ ctx[w].task.data.st = "str" /\ ctx[w].fetched

\* the entity the fetched document of a resolve call matches
AliasOf(t) == find_existing(View(t), ctx[t].model, ctx[t].data.d)

\* no entity has the requested remote id, and the fetched document matches
\* an existing entity
AliasMatch(t) ==
    /\ ctx[t].op = "resolve" /\ ctx[t].pc = "dedup"
    /\ ctx[t].result = 0
    /\ AliasOf(t) # 0

\* the second lookup: without refresh the matched entity is returned as it
\* is stored; with refresh it becomes the instance to update
AliasStep ==
    \A t \in Threads :
        (AliasMatch(t) /\ ctx'[t] # ctx[t]) =>
            /\ store' = store /\ nextpk' = nextpk /\ queue' = queue
            /\ IF ctx[t].refresh
               THEN /\ ctx'[t].pc = "construct"
                    /\ ctx'[t].result = AliasOf(t)
                    /\ ctx'[t].inst = Load(store, AliasOf(t))
               ELSE /\ ctx'[t].pc = "done" /\ ctx'[t].err = ""
                    /\ ctx'[t].ret = Load(store, AliasOf(t))

\* a resolve call that holds a matched entity creates no entity
MatchedStep ==
    \A t \in Threads :
        (ctx[t].op = "resolve" /\ ctx[t].result # 0 /\ ctx'[t] # ctx[t]) =>
            /\ DOMAIN store' = DOMAIN store
            /\ nextpk' = nextpk

\* ... and converts into that entity and returns it
MatchedState ==
    \A t \in Threads :
        (ctx[t].op = "resolve" /\ ctx[t].result # 0) =>
            /\ ctx[t].inst # None => ctx[t].inst.pk = ctx[t].result
            /\ (ctx[t].pc = "done" /\ ctx[t].err = "") =>
                   ctx[t].ret.pk = ctx[t].result

\* C22: in resolve_remote_id, when no entity has the requested remote id
\* but find_existing on the fetched document matches an entity, then
\* without refresh that entity is returned unchanged and nothing is
\* created, and with refresh that entity is the one converted into, no new
\* one being created
C22_AliasedDocumentMatches ==
    []MatchedState /\ [][AliasStep /\ MatchedStep]_vars

\* the second request asks for the uri of the first, whose entity was
\* stored under the document's other id; it refreshes and has written
C22_Witness ==
    /\ ctx["t1"].op = "resolve" /\ ctx["t1"].pc = "done" /\ ctx["t1"].err = ""
    /\ ctx["t2"].op = "resolve" /\ ctx["t2"].pc = "done" /\ ctx["t2"].err = ""
    /\ ctx["t2"].refresh /\ ctx["t2"].save
    /\ ctx["t1"].ret # None /\ ctx["t1"].ret.remote_id # ctx["t2"].remote_id
    /\ ctx["t2"].result # 0 /\ ctx["t2"].result = ctx["t1"].ret.pk
    /\ Occurs(ctx["t2"].log, "save")

\* the latest call is a get_or_create_book for a remote id that was not in
\* storage, and it has returned
BookSucceeded(t) ==
    /\ ctx[t].op = "book" /\ ctx[t].id = calls
    /\ ctx[t].pc = "done" /\ ctx[t].err = ""
    /\ ctx[t].result = 0

\* while get_or_create_book creates the edition, the work is written
WorkWrittenFirst(t) ==
    (ctx[t].op = "book" /\ ctx[t].model = "Edition" /\ ctx[t].pc # "done") =>
        /\ ctx[t].book.work # None
        /\ ctx[t].book.work.pk \in DOMAIN View(t)

\* C23: after a successful get_or_create_book on an unknown remote id the
\* work was written before the edition, the parent reference of the edition
\* returned is that work, the work's default edition is the edition
\* returned, and the edition's authors are the authors extracted for it if
\* there are any and otherwise the work's
C23_BookLinksWorkAndEdition ==
    \A t \in Threads :
        /\ WorkWrittenFirst(t)
        /\ BookSucceeded(t) =>
              LET work == ctx[t].book.work
                  edition == ctx[t].ret
              IN  /\ {work.pk, edition.pk} \subseteq DOMAIN store
                  /\ find_existing_by_remote_id(store, "Work", edition.parent)
                        = work.pk
                  /\ store[work.pk].default_edition = edition.pk
                  /\ store[edition.pk].authors =
                        IF ctx[t].book.authors # {}
                        THEN ctx[t].book.authors
                        ELSE store[work.pk].authors

\* what the dataclass machinery yields for a field that declares a default:
\* the literal, or what the factory (list) makes
DeclaredDefault(field) ==
    IF field.default # MISSING THEN field.default ELSE List(<<>>)

\* the declared fields the input leaves out
AbsentFields(fields, kwargs) ==
    {i \in 1..Len(fields) : fields[i].name \notin DOMAIN kwargs}

\* C24: a declared field that is absent from the constructor's input and
\* has a default gets that default, a literal as it is and a factory's
\* product for a factory default, never the MISSING sentinel; the
\* constructor fails only when an absent field has neither
C24_AbsentFieldGetsDefault ==
    (fin.kind = "kwargs" /\ fout # None) =>
        LET absent == AbsentFields(VariantFields, fin.kwargs)
        IN  /\ fout.ok <=> \A i \in absent : ~NoDefault(VariantFields[i])
            /\ fout.ok =>
                  \A i \in absent :
                      /\ fout.f[VariantFields[i].name]
                            = DeclaredDefault(VariantFields[i])
                      /\ fout.f[VariantFields[i].name] # MISSING

====
